---------------------------- MODULE Spec2Model ----------------------------
(***************************************************************************)
(* rollinglog (src/log.go): a rolling log-file writer.                     *)
(*                                                                         *)
(* src/log.go holds two variants of the package.  Variant 1 is lines       *)
(* 25-182 (New returns (io.WriteCloser, error), the handoff select has a   *)
(* timeout case); variant 2 is lines 208-338 (New returns io.WriteCloser,  *)
(* the handoff select has no timeout and the wait is a time.Sleep).  The   *)
(* two share Write and Close verbatim.  The variable variant selects the   *)
(* one a behaviour is about.                                               *)
(*                                                                         *)
(* Processes: the scheduler goroutine started by New, the constructor New, *)
(* and one caller thread that calls Write and Close on the writer New      *)
(* returned.  Write touches the writer's own fields, the channels and      *)
(* files the scheduler never looks at again, so with one caller thread a   *)
(* whole Write is one step.  Close closes the file the scheduler may be    *)
(* redirecting a descriptor to and then the channel the scheduler polls,   *)
(* so it is two steps with the scheduler running in between.               *)
(*                                                                         *)
(* Channels.  chFile and chErr are unbuffered.  The only receivers that    *)
(* ever park on them are the constructor's (lines 137-141, 300); Write's   *)
(* select has a default case (line 165), so it completes a receive only    *)
(* when the scheduler is already parked in a select offering the value.    *)
(* A parked select is resolved atomically by the first event that makes    *)
(* one of its cases ready: close(chClosed) and the timer take the          *)
(* scheduler off the send queue as they fire.  Hence a file or an error is *)
(* on offer to Write exactly while the scheduler is at the select, the     *)
(* shutdown channel is open and (variant 1, file offer) the timer has not  *)
(* fired.                                                                  *)
(*                                                                         *)
(* Time is a clock of ticks, TicksPerDay ticks to the day; it advances     *)
(* independently of the program, also between the scheduler's reading of   *)
(* the clock and the statements that use the reading.  A timer or sleep    *)
(* runs from the moment it is started and has fired once the clock has     *)
(* reached its deadline.                                                   *)
(*                                                                         *)
(* NewMust (variant 1) is New followed by log.Panic when New fails.        *)
(***************************************************************************)
EXTENDS Integers, Sequences, FiniteSets, TLC

\* ------------------------------------------------------------- bounds
MaxDays == 2
TicksPerDay == 2
MaxLen == 1

\* The clock runs through MaxDays whole days and stops at the first tick of
\* the day after.
MaxClock == MaxDays * TicksPerDay

\* ---------------------------------------------------------- constants
FlagCaptureStdout == 1
FlagCaptureStderr == 2

\* The nil *os.File.
NilFile == 0

\* Error values.  NoErr is the nil error.
NoErr == "nil"
ErrMkdir == "mkdir"
ErrOpen == "open"
EOF == "EOF"
ErrInvalid == "invalid argument"
ErrFileClosed == "file already closed"
ErrIO == "io"

VARIABLES
    variant,    \* 1 or 2: which variant of the package runs
    flags,      \* config.Flags, a bitmask
    clock,      \* wall clock, in ticks
    ctor,       \* New: "waiting" (blocked in its receive), "returned", "failed"
    newErr,     \* the error New returned (variant 1)
    f,          \* rollingFile.f: a handle, or NilFile
    lastErr,    \* rollingFile.lastErr
    chClosed,   \* chClosed has been closed
    chFile,     \* "open", or "closed" once the scheduler has returned
    pc,         \* the scheduler goroutine's position
    gf,         \* the scheduler's local f
    gerr,       \* the scheduler's local err
    now,        \* the scheduler's local now
    timeout,    \* deadline of the scheduler's timer (variant 1) or sleep (variant 2)
    files,      \* every handle opened so far: handle h is files[h]
    stdout,     \* the handle descriptor 1 refers to (NilFile: the original stream)
    stderr,     \* the handle descriptor 2 refers to
    panicked,   \* the process has panicked
    lastOp,     \* the last call of the caller thread and its result
    reported,   \* the first error a Write received from chErr, or NoErr
    thr         \* two unsynchronized caller threads: each one's position in its call

vars == <<variant, flags, clock, ctor, newErr, f, lastErr, chClosed, chFile, pc,
          gf, gerr, now, timeout, files, stdout, stderr, panicked, lastOp,
          reported, thr>>

writerVars == <<f, lastErr, lastOp, reported>>
schedVars == <<pc, gf, gerr, now, timeout>>
fdVars == <<stdout, stderr>>
configVars == <<variant, flags>>

\* ------------------------------------------------------------ helpers
Day(t) == t \div TicksPerDay

\* time.Date(now.Year(), now.Month(), now.Day()+1, 0, 0, 0, 0, ...)
Tomorrow(t) == (Day(t) + 1) * TicksPerDay

HasFlag(fl, bit) == (fl \div bit) % 2 = 1

Handles == 1..Len(files)

\* f.Close() on handle h: a nil or already closed handle is left as it is
\* (os.File.Close returns an error, which every caller here ignores).
FileClose(fs, h) ==
    IF h # NilFile /\ fs[h].open THEN [fs EXCEPT ![h].open = FALSE] ELSE fs

\* os.OpenFile succeeded on the path formatted from time t: a new handle on
\* the file of day Day(t).
FileOpen(fs, t) ==
    Append(fs, [day |-> Day(t), open |-> TRUE, adopted |-> <<>>,
                redirected |-> FALSE])

\* f.Write(p) on handle h, len(p) = n: the results the file system may give.
FileWrite(fs, h, n) ==
    IF h = NilFile THEN {[n |-> 0, err |-> ErrInvalid]}
    ELSE IF ~fs[h].open THEN {[n |-> 0, err |-> ErrFileClosed]}
    ELSE {[n |-> n, err |-> NoErr]} \cup {[n |-> k, err |-> ErrIO] : k \in 0..(n - 1)}

\* lastOp: op is the call; n and err are what it returned; target is the handle
\* Write forwarded the bytes to (NilFile: none); sel is the case Write's select
\* took; prev is the handle held when the call began; day is the day of the
\* call; idle is the number of midnights since the caller's previous call.
NoOp == [op |-> "none", n |-> 0, err |-> NoErr, target |-> NilFile,
         sel |-> "default", prev |-> NilFile, day |-> 0, idle |-> 0]

\* Two caller threads that share one rollingFile without synchronization.
Threads == {1, 2}

\* A caller thread: pc is its position in Write or Close ("idle": in no call),
\* got is the file its select received and err the error it received, until
\* they are stored; at "return", err is the error Write is returning.
IdleThread == [pc |-> "idle", got |-> NilFile, err |-> NoErr, word |-> "none"]

\* The caller thread of the behaviours with a single caller, and whether it
\* is between calls.
Caller == 1
CallerIdle == thr[Caller].pc = "idle"

\* --------------------------------------------------------------- Init
Init ==
    /\ variant \in {1, 2}
    /\ flags \in 0..(FlagCaptureStdout + FlagCaptureStderr)
    /\ clock \in 0..(TicksPerDay - 1)
    /\ ctor = "waiting"
    /\ newErr = NoErr
    /\ f = NilFile
    /\ lastErr = NoErr
    /\ chClosed = FALSE
    /\ chFile = "open"
    /\ pc = "top"
    /\ gf = NilFile
    /\ gerr = NoErr
    /\ now = 0
    /\ timeout = 0
    /\ files = <<>>
    /\ stdout = NilFile
    /\ stderr = NilFile
    /\ panicked = FALSE
    /\ lastOp = NoOp
    /\ reported = NoErr
    /\ thr = [t \in Threads |-> IdleThread]

\* ---------------------------------------------------------------- time
Tick ==
    /\ ~panicked
    /\ clock < MaxClock
    /\ clock' = clock + 1
    /\ UNCHANGED <<configVars, thr, ctor, newErr, writerVars, chClosed, chFile,
                   schedVars, files, fdVars, panicked>>


\* ------------------------------------------------------- the scheduler
\* The scheduler goroutine of New.  Positions:
\*   "top"       the shutdown check that opens the loop body
\*   "now"       about to read the clock
\*   "open"      about to create the directory and open the file
\*   "offerErr"  at the select that offers err on chErr
\*   "offerFile" at the select that offers f on chFile
\*   "wait"      variant 1: at <-timeout after a handoff
\*   "redirect"  variant 2: after a handoff, before the stdout capture block
\*   "redirect2" variant 2: before the stderr capture block
\*   "sleepCall" variant 2: about to compute tomorrow and call time.Sleep
\*   "sleep"     variant 2: in time.Sleep
\*   "ret"       err was received: about to return
\*   "done"      returned; the deferred close(chFile) has run

\* Where the scheduler continues once chFile <- f has completed.
AfterHandoff == IF variant = 1 THEN "wait" ELSE "redirect"

\* The handle a standard descriptor refers to after the capture block for `bit`.
Redirect(fl, bit, h, cur) == IF HasFlag(fl, bit) THEN h ELSE cur

\* files after the capture blocks ran on handle h.
MarkRedirected(fs, fl, h) ==
    IF HasFlag(fl, FlagCaptureStdout) \/ HasFlag(fl, FlagCaptureStderr)
    THEN [fs EXCEPT ![h].redirected = TRUE] ELSE fs

\* files after `who` ("New" or "Write") received handle h from chFile at time
\* t.  adopted is <<>> for a handle never received and <<d, who>> for one
\* received on day d.
MarkAdopted(fs, h, t, who) == [fs EXCEPT ![h].adopted = <<Day(t), who>>]

Adopted(h) == files[h].adopted # <<>>

\* Mutant of SchedCheckClosed: the loop top has no shutdown case.
SchedCheckClosedStuck ==
    /\ ~panicked
    /\ pc = "top"
    /\ ~chClosed
    /\ pc' = "now"
    /\ UNCHANGED <<configVars, thr, clock, ctor, newErr, writerVars, chClosed, chFile,
                   gf, gerr, now, timeout, files, fdVars, panicked>>

\* select { case <-chClosed: return; default: }
SchedCheckClosed ==
    /\ ~panicked
    /\ pc = "top"
    /\ IF chClosed
       THEN pc' = "done" /\ chFile' = "closed"
       ELSE pc' = "now" /\ chFile' = chFile
    /\ UNCHANGED <<configVars, thr, clock, ctor, newErr, writerVars, chClosed,
                   gf, gerr, now, timeout, files, fdVars, panicked>>

\* now := time.Now(): the reading every later statement of the iteration uses
\* for the file's path and for the length of the wait.
SchedNow ==
    /\ ~panicked
    /\ pc = "now"
    /\ now' = clock
    /\ pc' = "open"
    /\ UNCHANGED <<configVars, thr, clock, ctor, newErr, writerVars, chClosed, chFile,
                   gf, gerr, timeout, files, fdVars, panicked>>

\* Mutant of SchedOpenFail: the failure is dropped and the loop starts over.
SchedOpenFailRetries ==
    /\ ~panicked
    /\ pc = "open"
    /\ \E e \in {ErrMkdir, ErrOpen} : gerr' = e
    /\ pc' = "top"
    /\ UNCHANGED <<configVars, thr, clock, ctor, newErr, writerVars, chClosed, chFile,
                   gf, now, timeout, files, fdVars, panicked>>

\* os.MkdirAll or os.OpenFile fails.
SchedOpenFail ==
    /\ ~panicked
    /\ pc = "open"
    /\ \E e \in {ErrMkdir, ErrOpen} : gerr' = e
    /\ pc' = "offerErr"
    /\ UNCHANGED <<configVars, thr, clock, ctor, newErr, writerVars, chClosed, chFile,
                   gf, now, timeout, files, fdVars, panicked>>

\* The directory exists and the file opens; its path is the one of the day of
\* `now`.  Variant 1 then redirects the captured descriptors and arms the
\* timer, time.After(tomorrow.Sub(now)), which runs from the moment of the
\* call, not from `now`; variant 2 goes straight to the handoff.
SchedOpenOK ==
    /\ ~panicked
    /\ pc = "open"
    /\ LET h == Len(files) + 1
           opened == FileOpen(files, now)
       IN /\ gf' = h
          /\ IF variant = 1
             THEN /\ files' = MarkRedirected(opened, flags, h)
                  /\ stdout' = Redirect(flags, FlagCaptureStdout, h, stdout)
                  /\ stderr' = Redirect(flags, FlagCaptureStderr, h, stderr)
                  /\ timeout' = clock + (Tomorrow(now) - now)
             ELSE /\ files' = opened
                  /\ UNCHANGED <<fdVars, timeout>>
    /\ pc' = "offerFile"
    /\ UNCHANGED <<configVars, thr, clock, ctor, newErr, writerVars, chClosed, chFile,
                   gerr, now, panicked>>

\* select { case chErr <- err: ; case <-chClosed: }; return -- the shutdown case.
SchedErrClosed ==
    /\ ~panicked
    /\ pc = "offerErr"
    /\ chClosed
    /\ pc' = "done"
    /\ chFile' = "closed"
    /\ UNCHANGED <<configVars, thr, clock, ctor, newErr, writerVars, chClosed,
                   gf, gerr, now, timeout, files, fdVars, panicked>>

\* return after chErr <- err completed; the deferred close(chFile) runs.
SchedReturn ==
    /\ ~panicked
    /\ pc = "ret"
    /\ pc' = "done"
    /\ chFile' = "closed"
    /\ UNCHANGED <<configVars, thr, clock, ctor, newErr, writerVars, chClosed,
                   gf, gerr, now, timeout, files, fdVars, panicked>>

\* The handoff select's shutdown case.  Variant 1: return.  Variant 2:
\* continue, to the loop's shutdown check.  Neither closes f.
SchedFileClosed ==
    /\ ~panicked
    /\ pc = "offerFile"
    /\ chClosed
    /\ IF variant = 1
       THEN pc' = "done" /\ chFile' = "closed"
       ELSE pc' = "top" /\ chFile' = chFile
    /\ UNCHANGED <<configVars, thr, clock, ctor, newErr, writerVars, chClosed,
                   gf, gerr, now, timeout, files, fdVars, panicked>>

\* Variant 1, the handoff select's timeout case: f.Close(), next iteration.
SchedTimeout ==
    /\ ~panicked
    /\ variant = 1
    /\ pc = "offerFile"
    /\ clock >= timeout
    /\ files' = FileClose(files, gf)
    /\ pc' = "top"
    /\ UNCHANGED <<configVars, thr, clock, ctor, newErr, writerVars, chClosed, chFile,
                   gf, gerr, now, timeout, fdVars, panicked>>

\* Mutant of SchedWaitTimeout: the file handed over is closed at midnight.
SchedWaitTimeoutClosesFile ==
    /\ ~panicked
    /\ variant = 1
    /\ pc = "wait"
    /\ clock >= timeout
    /\ files' = FileClose(files, gf)
    /\ pc' = "top"
    /\ UNCHANGED <<configVars, thr, clock, ctor, newErr, writerVars, chClosed, chFile,
                   gf, gerr, now, timeout, fdVars, panicked>>

\* Mutant of SchedWaitTimeout: the goroutine returns at midnight.
SchedWaitTimeoutReturns ==
    /\ ~panicked
    /\ variant = 1
    /\ pc = "wait"
    /\ clock >= timeout
    /\ pc' = "ret"
    /\ UNCHANGED <<configVars, thr, clock, ctor, newErr, writerVars, chClosed, chFile,
                   gf, gerr, now, timeout, files, fdVars, panicked>>

\* Variant 1, <-timeout after the handoff.
SchedWaitTimeout ==
    /\ ~panicked
    /\ variant = 1
    /\ pc = "wait"
    /\ clock >= timeout
    /\ pc' = "top"
    /\ UNCHANGED <<configVars, thr, clock, ctor, newErr, writerVars, chClosed, chFile,
                   gf, gerr, now, timeout, files, fdVars, panicked>>

\* files and the handle a standard descriptor refers to after one capture
\* block of variant 2 ran on handle h: f.Fd() and syscall.Dup2 work on the
\* file as it is at that moment.  When the writer has already closed it,
\* f.Fd() is invalid, Dup2 fails (its result is ignored) and the descriptor
\* stays as it was.
Dup2Files(fs, fl, bit, h) ==
    IF HasFlag(fl, bit) /\ fs[h].open THEN [fs EXCEPT ![h].redirected = TRUE] ELSE fs

Dup2Target(fs, fl, bit, h, cur) ==
    IF fs[h].open THEN Redirect(fl, bit, h, cur) ELSE cur

\* Variant 2, after the handoff: the stdout capture block.
SchedRedirectStdout ==
    /\ ~panicked
    /\ variant = 2
    /\ pc = "redirect"
    /\ files' = Dup2Files(files, flags, FlagCaptureStdout, gf)
    /\ stdout' = Dup2Target(files, flags, FlagCaptureStdout, gf, stdout)
    /\ pc' = "redirect2"
    /\ UNCHANGED <<configVars, thr, clock, ctor, newErr, writerVars, chClosed, chFile,
                   gf, gerr, now, timeout, stderr, panicked>>

\* Variant 2: the stderr capture block.
SchedRedirectStderr ==
    /\ ~panicked
    /\ variant = 2
    /\ pc = "redirect2"
    /\ files' = Dup2Files(files, flags, FlagCaptureStderr, gf)
    /\ stderr' = Dup2Target(files, flags, FlagCaptureStderr, gf, stderr)
    /\ pc' = "sleepCall"
    /\ UNCHANGED <<configVars, thr, clock, ctor, newErr, writerVars, chClosed, chFile,
                   gf, gerr, now, timeout, stdout, panicked>>

\* Variant 2: time.Sleep is entered with the duration tomorrow.Sub(now).
SchedSleep ==
    /\ ~panicked
    /\ variant = 2
    /\ pc = "sleepCall"
    /\ timeout' = clock + (Tomorrow(now) - now)
    /\ pc' = "sleep"
    /\ UNCHANGED <<configVars, thr, clock, ctor, newErr, writerVars, chClosed, chFile,
                   gf, gerr, now, files, fdVars, panicked>>

\* Variant 2, time.Sleep returns.
SchedWake ==
    /\ ~panicked
    /\ variant = 2
    /\ pc = "sleep"
    /\ clock >= timeout
    /\ pc' = "top"
    /\ UNCHANGED <<configVars, thr, clock, ctor, newErr, writerVars, chClosed, chFile,
                   gf, gerr, now, timeout, files, fdVars, panicked>>

Sched ==
    \/ SchedCheckClosed
    \/ SchedNow
    \/ SchedOpenFail
    \/ SchedOpenOK
    \/ SchedErrClosed
    \/ SchedReturn
    \/ SchedFileClosed
    \/ SchedTimeout
    \/ SchedWaitTimeout
    \/ SchedRedirectStdout
    \/ SchedRedirectStderr
    \/ SchedSleep
    \/ SchedWake

\* ----------------------------------------------------- the constructor
\* New's receive of the first file (variant 1: case f = <-chFile; variant 2:
\* f: <-chFile).  New is parked in the receive, so the scheduler's send is
\* ready as soon as it reaches the handoff select.
NewRecvFile ==
    /\ ~panicked
    /\ ctor = "waiting"
    /\ pc = "offerFile"
    /\ f' = gf
    /\ ctor' = "returned"
    /\ files' = MarkAdopted(files, gf, clock, "New")
    /\ pc' = AfterHandoff
    /\ lastOp' = [NoOp EXCEPT !.op = "New", !.sel = "file", !.day = Day(clock)]
    /\ UNCHANGED <<configVars, thr, clock, newErr, lastErr, chClosed, chFile,
                   gf, gerr, now, timeout, fdVars, panicked, reported>>

\* Mutant of NewRecvErr: New receives from chFile alone.
NewRecvErrMissing == FALSE /\ UNCHANGED vars

\* Variant 1 only: case err := <-chErr: return nil, err.  Variant 2's New
\* receives from chFile alone.
NewRecvErr ==
    /\ ~panicked
    /\ variant = 1
    /\ ctor = "waiting"
    /\ pc = "offerErr"
    /\ newErr' = gerr
    /\ ctor' = "failed"
    /\ pc' = "ret"
    /\ lastOp' = [NoOp EXCEPT !.op = "New", !.sel = "err", !.err = gerr,
                               !.day = Day(clock)]
    /\ UNCHANGED <<configVars, thr, clock, f, lastErr, chClosed, chFile,
                   gf, gerr, now, timeout, files, fdVars, panicked, reported>>

\* Variant 1, the constructor called through NewMust: New has returned the
\* error (NewRecvErr) and NewMust calls log.Panic.  The scheduler, released
\* by New's receive, runs on until the panic.  (When New returns a writer
\* NewMust returns it: NewRecvFile.)
NewMustPanic ==
    /\ ~panicked
    /\ variant = 1
    /\ ctor = "failed"
    /\ panicked' = TRUE
    /\ lastOp' = [lastOp EXCEPT !.op = "NewMust"]
    /\ UNCHANGED <<configVars, thr, clock, ctor, newErr, f, lastErr, chClosed, chFile,
                   schedVars, files, fdVars, reported>>

\* ---------------------------------------------------------- the writer
\* The scheduler is parked offering err on chErr.
ErrOffered == pc = "offerErr" /\ ~chClosed

\* The scheduler is parked offering f on chFile.
FileOffered ==
    /\ pc = "offerFile"
    /\ ~chClosed
    /\ variant = 1 => clock < timeout

\* Mutant of WriteSelect: the select has no default case.
WriteSelectNoDefault ==
    IF ErrOffered THEN "err"
    ELSE IF FileOffered THEN "file"
    ELSE IF chFile = "closed" THEN "closed"
    ELSE "block"

\* The case Write's select takes:
\*   select { case rf.lastErr = <-rf.chErr: ; case f := <-rf.chFile: ; default: }
\* "closed" is the chFile case on the closed channel, which yields nil.
WriteSelect ==
    IF ErrOffered THEN "err"
    ELSE IF FileOffered THEN "file"
    ELSE IF chFile = "closed" THEN "closed"
    ELSE "default"

\* A select proceeds once one of its cases is ready; a select with a default
\* case always has one.  "block" stands for a select with none.
SelectProceeds(sel) == sel # "block"

\* Mutant of WriteLastErr: the recorded error does not survive a later select.
WriteLastErrForgets(sel) == IF sel = "err" THEN gerr ELSE NoErr

\* rf.lastErr after the select took case sel.
WriteLastErr(sel) == IF sel = "err" THEN gerr ELSE lastErr

\* Mutant of WriteFile: the received file is not stored in rf.f.
WriteFileKeepsOld(sel) == IF sel = "closed" THEN NilFile ELSE f

\* rf.f after the select took case sel.
WriteFile(sel) ==
    IF sel = "file" THEN gf
    ELSE IF sel = "closed" THEN NilFile
    ELSE f

\* files after the select took case sel: rf.f.Close() in the chFile case.
WriteFiles(sel) ==
    IF sel = "file" THEN MarkAdopted(FileClose(files, f), gf, clock, "Write")
    ELSE IF sel = "closed" THEN FileClose(files, f)
    ELSE files

\* Mutant of WriteResult: the recorded error is not consulted.
WriteResultIgnoresLastErr(le, fs, h, n) ==
    {[n |-> r.n, err |-> r.err, target |-> h] : r \in FileWrite(fs, h, n)}

\* Mutant of WriteResult: after a failed file write nothing is forwarded.
WriteResultStickyFileErr(le, fs, h, n) ==
    IF le # NoErr
    THEN {[n |-> 0, err |-> le, target |-> NilFile]}
    ELSE IF lastOp.op = "Write" /\ lastOp.err # NoErr
    THEN {[n |-> 0, err |-> lastOp.err, target |-> NilFile]}
    ELSE {[n |-> r.n, err |-> r.err, target |-> h] : r \in FileWrite(fs, h, n)}

\* if rf.lastErr != nil { return 0, rf.lastErr }; return rf.f.Write(p)
\* The results Write may return, with the handle the bytes were forwarded to.
WriteResult(le, fs, h, n) ==
    IF le # NoErr
    THEN {[n |-> 0, err |-> le, target |-> NilFile]}
    ELSE {[n |-> r.n, err |-> r.err, target |-> h] : r \in FileWrite(fs, h, n)}

\* rollingFile.Write(p), len(p) = n.
Write(n) ==
    /\ ~panicked
    /\ ctor = "returned"
    /\ CallerIdle
    /\ UNCHANGED <<configVars, thr, clock, ctor, newErr, chClosed, chFile,
                   gf, gerr, now, timeout, fdVars, panicked>>
    /\ SelectProceeds(WriteSelect)
    /\ LET sel == WriteSelect
           le == WriteLastErr(sel)
           h == WriteFile(sel)
           fs == WriteFiles(sel)
       IN /\ lastErr' = le
          /\ f' = h
          /\ files' = fs
          /\ pc' = IF sel = "err" THEN "ret"
                   ELSE IF sel = "file" THEN AfterHandoff
                   ELSE pc
          /\ reported' = IF sel = "err" /\ reported = NoErr THEN gerr ELSE reported
          /\ \E r \in WriteResult(le, fs, h, n) :
                lastOp' = [op |-> "Write", n |-> r.n, err |-> r.err,
                           target |-> r.target, sel |-> sel, prev |-> f,
                           day |-> Day(clock), idle |-> Day(clock) - lastOp.day]

\* Mutant of CloseLastErr: Close leaves the recorded error as it is.
CloseLastErrKept(le) == le

\* rf.lastErr = io.EOF
CloseLastErr(le) == EOF

\* close(rf.chClosed) panics when the channel is already closed.
ClosePanics == chClosed

\* rollingFile.Close(), first statement: if rf.f != nil { rf.f.Close() }.
CloseFile ==
    /\ ~panicked
    /\ ctor = "returned"
    /\ CallerIdle
    /\ files' = FileClose(files, f)
    /\ thr' = [thr EXCEPT ![Caller].pc = "closeChan"]
    /\ lastOp' = [NoOp EXCEPT !.op = "Close", !.prev = f, !.day = Day(clock),
                              !.idle = Day(clock) - lastOp.day]
    /\ UNCHANGED <<configVars, clock, ctor, newErr, f, lastErr, chClosed, chFile,
                   schedVars, fdVars, panicked, reported>>

\* rollingFile.Close(), the rest: rf.lastErr = io.EOF; close(rf.chClosed);
\* return nil.
CloseChan ==
    /\ ~panicked
    /\ thr[Caller].pc = "closeChan"
    /\ lastErr' = CloseLastErr(lastErr)
    /\ panicked' = ClosePanics
    /\ chClosed' = TRUE
    /\ thr' = [thr EXCEPT ![Caller].pc = "idle"]
    /\ UNCHANGED <<configVars, clock, ctor, newErr, f, chFile, schedVars, files,
                   fdVars, lastOp, reported>>

Close == CloseFile \/ CloseChan

\* ------------------------------------------- two unsynchronized callers
\* Write and Close statement by statement, each statement one step of the
\* calling thread; memory accesses of different threads interleave.
\*
\* rf.lastErr is an interface value of two machine words, the type word and
\* the data word.  A store writes and a load reads the two words one after
\* the other, in an order the build chooses, so under the race on rf.lastErr
\* a load can return, and two stores can leave behind, the type word of one
\* stored value with the data word of another.

\* The type words: nil, *os.PathError (what os.MkdirAll and os.OpenFile
\* return) and *errors.errorString (io.EOF).
TypeWords == {"nil", "PathError", "errorString"}

\* The data words: nil or the address of an error value, named after it.
DataWords == {"nil", ErrMkdir, ErrOpen, EOF}

\* The interface value made of type word tw and data word dw: one of the
\* values the program stores, or a torn value.
Iface(tw, dw) ==
    IF tw = "nil" /\ dw = "nil" THEN NoErr
    ELSE IF tw = "PathError" /\ dw \in {ErrMkdir, ErrOpen} THEN dw
    ELSE IF tw = "errorString" /\ dw = EOF THEN EOF
    ELSE "torn<" \o tw \o "," \o dw \o ">"

Words(e) == CHOOSE w \in TypeWords \X DataWords : Iface(w[1], w[2]) = e
TypeWord(e) == Words(e)[1]
DataWord(e) == Words(e)[2]

\* cur after one word of new was stored over it.
StoreWord(cur, new, word) ==
    IF word = "type" THEN Iface(TypeWord(new), DataWord(cur))
    ELSE Iface(TypeWord(cur), DataWord(new))

OtherWord(word) == IF word = "type" THEN "data" ELSE "type"

\* What a load holds after reading one word of cur, the other word not read
\* yet, and what it holds after reading the other word as well.
LoadFirst(cur, word) ==
    IF word = "type" THEN Iface(TypeWord(cur), "nil") ELSE Iface("nil", DataWord(cur))

LoadRest(part, cur, word) ==
    IF word = "type" THEN Iface(TypeWord(cur), DataWord(part))
    ELSE Iface(TypeWord(part), DataWord(cur))

\* Mutant of ThrWriteSelect: a call begins only while no other call runs.
ThrWriteSelectLocked(t) ==
    /\ ~panicked
    /\ ctor = "returned"
    /\ \A u \in Threads : thr[u].pc = "idle"
    /\ SelectProceeds(WriteSelect)
    /\ LET sel == WriteSelect
       IN /\ thr' = [thr EXCEPT ![t].pc = IF sel = "err" THEN "storeErr"
                                           ELSE IF sel = "default" THEN "check"
                                           ELSE "closeOld",
                                 ![t].err = IF sel = "err" THEN gerr ELSE NoErr,
                                 ![t].got = IF sel = "file" THEN gf ELSE NilFile]
          /\ pc' = IF sel = "err" THEN "ret"
                   ELSE IF sel = "file" THEN AfterHandoff
                   ELSE pc
          /\ files' = IF sel = "file" THEN MarkAdopted(files, gf, clock, "Write")
                      ELSE files
    /\ UNCHANGED <<configVars, clock, ctor, newErr, writerVars, chClosed, chFile,
                   gf, gerr, now, timeout, fdVars, panicked>>

\* Write: the select receives (or takes its default case).
ThrWriteSelect(t) ==
    /\ ~panicked
    /\ ctor = "returned"
    /\ thr[t].pc = "idle"
    /\ SelectProceeds(WriteSelect)
    /\ LET sel == WriteSelect
       IN /\ thr' = [thr EXCEPT ![t].pc = IF sel = "err" THEN "storeErr"
                                           ELSE IF sel = "default" THEN "check"
                                           ELSE "closeOld",
                                 ![t].err = IF sel = "err" THEN gerr ELSE NoErr,
                                 ![t].got = IF sel = "file" THEN gf ELSE NilFile]
          /\ pc' = IF sel = "err" THEN "ret"
                   ELSE IF sel = "file" THEN AfterHandoff
                   ELSE pc
          /\ files' = IF sel = "file" THEN MarkAdopted(files, gf, clock, "Write")
                      ELSE files
    /\ UNCHANGED <<configVars, clock, ctor, newErr, writerVars, chClosed, chFile,
                   gf, gerr, now, timeout, fdVars, panicked>>

\* Write: rf.lastErr = <the error received>, the first word stored.
ThrWriteStoreErr(t) ==
    /\ ~panicked
    /\ thr[t].pc = "storeErr"
    /\ \E word \in {"type", "data"} :
          /\ lastErr' = StoreWord(lastErr, thr[t].err, word)
          /\ thr' = [thr EXCEPT ![t].pc = "storeErrRest", ![t].word = OtherWord(word)]
    /\ UNCHANGED <<configVars, clock, ctor, newErr, f, lastOp, reported, chClosed,
                   chFile, schedVars, files, fdVars, panicked>>

\* Write: rf.lastErr = <the error received>, the other word stored.
ThrWriteStoreErrRest(t) ==
    /\ ~panicked
    /\ thr[t].pc = "storeErrRest"
    /\ lastErr' = StoreWord(lastErr, thr[t].err, thr[t].word)
    /\ thr' = [thr EXCEPT ![t].pc = "check", ![t].err = NoErr, ![t].word = "none"]
    /\ UNCHANGED <<configVars, clock, ctor, newErr, f, lastOp, reported, chClosed,
                   chFile, schedVars, files, fdVars, panicked>>

\* Write: rf.f.Close().
ThrWriteCloseOld(t) ==
    /\ ~panicked
    /\ thr[t].pc = "closeOld"
    /\ files' = FileClose(files, f)
    /\ thr' = [thr EXCEPT ![t].pc = "storeFile"]
    /\ UNCHANGED <<configVars, clock, ctor, newErr, writerVars, chClosed, chFile,
                   schedVars, fdVars, panicked>>

\* Write: rf.f = f.
ThrWriteStoreFile(t) ==
    /\ ~panicked
    /\ thr[t].pc = "storeFile"
    /\ f' = thr[t].got
    /\ thr' = [thr EXCEPT ![t].pc = "check", ![t].got = NilFile]
    /\ UNCHANGED <<configVars, clock, ctor, newErr, lastErr, lastOp, reported,
                   chClosed, chFile, schedVars, files, fdVars, panicked>>

\* Write: if rf.lastErr != nil.  The comparison with nil tests the type word.
ThrWriteCheck(t) ==
    /\ ~panicked
    /\ thr[t].pc = "check"
    /\ thr' = IF TypeWord(lastErr) # "nil"
              THEN [thr EXCEPT ![t].pc = "loadErr"]
              ELSE [thr EXCEPT ![t].pc = "forward"]
    /\ UNCHANGED <<configVars, clock, ctor, newErr, writerVars, chClosed, chFile,
                   schedVars, files, fdVars, panicked>>

\* Write: return 0, rf.lastErr, the first word loaded.
ThrWriteLoadErr(t) ==
    /\ ~panicked
    /\ thr[t].pc = "loadErr"
    /\ \E word \in {"type", "data"} :
          thr' = [thr EXCEPT ![t].pc = "loadErrRest",
                             ![t].err = LoadFirst(lastErr, word),
                             ![t].word = OtherWord(word)]
    /\ UNCHANGED <<configVars, clock, ctor, newErr, writerVars, chClosed, chFile,
                   schedVars, files, fdVars, panicked>>

\* Write: return 0, rf.lastErr, the other word loaded.
ThrWriteLoadErrRest(t) ==
    /\ ~panicked
    /\ thr[t].pc = "loadErrRest"
    /\ thr' = [thr EXCEPT ![t].pc = "return",
                          ![t].err = LoadRest(thr[t].err, lastErr, thr[t].word),
                          ![t].word = "none"]
    /\ UNCHANGED <<configVars, clock, ctor, newErr, writerVars, chClosed, chFile,
                   schedVars, files, fdVars, panicked>>

\* Write: return rf.f.Write(p), len(p) = n.
ThrWriteForward(t, n) ==
    /\ ~panicked
    /\ thr[t].pc = "forward"
    /\ \E r \in FileWrite(files, f, n) :
          thr' = [thr EXCEPT ![t].pc = "return", ![t].err = r.err]
    /\ UNCHANGED <<configVars, clock, ctor, newErr, writerVars, chClosed, chFile,
                   schedVars, files, fdVars, panicked>>

\* Write returns to its caller.
ThrWriteReturn(t) ==
    /\ ~panicked
    /\ thr[t].pc = "return"
    /\ thr' = [thr EXCEPT ![t] = IdleThread]
    /\ UNCHANGED <<configVars, clock, ctor, newErr, writerVars, chClosed, chFile,
                   schedVars, files, fdVars, panicked>>

\* Close: if rf.f != nil { rf.f.Close() }.
ThrCloseFile(t) ==
    /\ ~panicked
    /\ ctor = "returned"
    /\ thr[t].pc = "idle"
    /\ files' = FileClose(files, f)
    /\ thr' = [thr EXCEPT ![t].pc = "setEOF"]
    /\ UNCHANGED <<configVars, clock, ctor, newErr, writerVars, chClosed, chFile,
                   schedVars, fdVars, panicked>>

\* Close: rf.lastErr = io.EOF, the first word stored.
ThrCloseSetErr(t) ==
    /\ ~panicked
    /\ thr[t].pc = "setEOF"
    /\ \E word \in {"type", "data"} :
          /\ lastErr' = StoreWord(lastErr, CloseLastErr(lastErr), word)
          /\ thr' = [thr EXCEPT ![t].pc = "setEOFRest", ![t].word = OtherWord(word)]
    /\ UNCHANGED <<configVars, clock, ctor, newErr, f, lastOp, reported, chClosed,
                   chFile, schedVars, files, fdVars, panicked>>

\* Close: rf.lastErr = io.EOF, the other word stored.
ThrCloseSetErrRest(t) ==
    /\ ~panicked
    /\ thr[t].pc = "setEOFRest"
    /\ lastErr' = StoreWord(lastErr, CloseLastErr(lastErr), thr[t].word)
    /\ thr' = [thr EXCEPT ![t].pc = "closeChan", ![t].word = "none"]
    /\ UNCHANGED <<configVars, clock, ctor, newErr, f, lastOp, reported, chClosed,
                   chFile, schedVars, files, fdVars, panicked>>

\* Close: close(rf.chClosed); return nil.
ThrCloseChan(t) ==
    /\ ~panicked
    /\ thr[t].pc = "closeChan"
    /\ panicked' = ClosePanics
    /\ chClosed' = TRUE
    /\ thr' = [thr EXCEPT ![t].pc = "idle"]
    /\ UNCHANGED <<configVars, clock, ctor, newErr, writerVars, chFile,
                   schedVars, files, fdVars>>

\* ---------------------------------------------------------------- Next
Next ==
    \/ Tick
    \/ SchedCheckClosed
    \/ SchedNow
    \/ SchedOpenFail
    \/ SchedOpenOK
    \/ SchedErrClosed
    \/ SchedReturn
    \/ SchedFileClosed
    \/ SchedTimeout
    \/ SchedWaitTimeout
    \/ SchedRedirectStdout
    \/ SchedRedirectStderr
    \/ SchedSleep
    \/ SchedWake
    \/ NewRecvFile
    \/ NewRecvErr
    \/ NewMustPanic
    \/ \E n \in 1..MaxLen : Write(n)
    \/ Close

Spec == Init /\ [][Next]_vars

\* The program while the caller makes no call on the writer: the constructor
\* and the scheduler alone.  Without a call chClosed stays open, so the
\* scheduler's shutdown cases are left out.
NewNext ==
    \/ Tick
    \/ SchedCheckClosed
    \/ SchedNow
    \/ SchedOpenFail
    \/ SchedOpenOK
    \/ SchedReturn
    \/ SchedTimeout
    \/ SchedWaitTimeout
    \/ SchedRedirectStdout
    \/ SchedRedirectStderr
    \/ SchedSleep
    \/ SchedWake
    \/ NewRecvFile
    \/ NewRecvErr
    \/ NewMustPanic

\* The Go scheduler runs every goroutine that can run: the scheduler goroutine
\* and the constructor each take a step that stays possible.  Nothing is
\* assumed of the clock.
NewSpec ==
    /\ Init
    /\ [][NewNext]_vars
    /\ WF_vars(Sched)
    /\ WF_vars(NewRecvFile)
    /\ WF_vars(NewRecvErr)

\* The program while the caller's only calls are Close: a Write made before
\* Close moves the scheduler only along steps it takes here as well, and a
\* Write made after Close finds nothing on offer.  Same scheduling as NewSpec;
\* the caller may call Close or not, and the clock may advance or not.
CloseNext ==
    \/ Tick
    \/ Sched
    \/ NewRecvFile
    \/ NewRecvErr
    \/ NewMustPanic
    \/ Close

CloseSpec ==
    /\ Init
    /\ [][CloseNext]_vars
    /\ WF_vars(Sched)
    /\ WF_vars(NewRecvFile)
    /\ WF_vars(NewRecvErr)

\* The program with two caller threads that call Write and Close with no
\* synchronization between them, followed until the first tick of the day
\* after the one it started on (one rollover), with capture off: the capture
\* flags touch neither Write nor Close.
ThreadsMaxClock == TicksPerDay

ThreadsInit == Init /\ flags = 0

ThreadsTick == Tick /\ clock < ThreadsMaxClock

ThreadsNext ==
    \/ ThreadsTick
    \/ Sched
    \/ NewRecvFile
    \/ NewRecvErr
    \/ NewMustPanic
    \/ \E t \in Threads :
          \/ ThrWriteSelect(t)
          \/ ThrWriteStoreErr(t)
          \/ ThrWriteStoreErrRest(t)
          \/ ThrWriteCloseOld(t)
          \/ ThrWriteStoreFile(t)
          \/ ThrWriteCheck(t)
          \/ ThrWriteLoadErr(t)
          \/ ThrWriteLoadErrRest(t)
          \/ \E n \in 1..MaxLen : ThrWriteForward(t, n)
          \/ ThrWriteReturn(t)
          \/ ThrCloseFile(t)
          \/ ThrCloseSetErr(t)
          \/ ThrCloseSetErrRest(t)
          \/ ThrCloseChan(t)

ThreadsSpec == ThreadsInit /\ [][ThreadsNext]_vars

\* -------------------------------------------------------------- claims
\* The caller's last call was a Write made after a Write had received an
\* error from chErr (or was that Write).
WriteAfterReport == reported # NoErr /\ lastOp.op = "Write"

\* C1 as stated: once a Write has returned an error the scheduler reported on
\* chErr, every later Write returns zero bytes and that same error, whatever
\* Write, Close and scheduler steps come between.
C1_SameErrorForever ==
    WriteAfterReport => lastOp.n = 0 /\ lastOp.err = reported

\* C1 as amended: once a Write has returned an error the scheduler reported on
\* chErr, every later Write returns zero bytes, forwards nothing, and returns
\* that same error until Close is called; after Close it returns io.EOF.
C1_StickyUntilClose ==
    WriteAfterReport =>
        /\ lastOp.n = 0
        /\ lastOp.target = NilFile
        /\ lastOp.err = IF chClosed THEN EOF ELSE reported

\* A Write later than the one that received the error returned the same error.
C1_Witness ==
    /\ WriteAfterReport
    /\ lastOp.sel # "err"
    /\ ~chClosed
    /\ lastOp.err = reported

\* C2: after Close has returned, every Write returns (0, io.EOF) and forwards
\* no bytes to any file, wherever the scheduler was when Close was called.
C2_WriteAfterCloseEOF ==
    (chClosed /\ lastOp.op = "Write") =>
        /\ lastOp.n = 0
        /\ lastOp.err = EOF
        /\ lastOp.target = NilFile

\* A Write returned after Close while the scheduler still stood at the handoff
\* select with an unpublished file.
C2_Witness ==
    /\ chClosed
    /\ lastOp.op = "Write"
    /\ lastOp.err = EOF
    /\ pc = "offerFile"
    /\ ~Adopted(gf)

\* C3 as stated: a second Close on the same writer is a no-op; it does not
\* panic and it does not block.
C3_SecondCloseNoPanic == lastOp.op = "Close" => ~panicked

\* C4 as stated: every file the scheduler opens is adopted by the Writer or
\* closed by the scheduler, so once the scheduler has terminated no opened
\* but unadopted handle is still open.
C4_NoLeakOnceStopped ==
    pc = "done" => \A h \in Handles : Adopted(h) \/ ~files[h].open

\* C5 as stated: the wait for midnight is cancellable by shutdown; with Close
\* called while the scheduler waits after a handoff, the scheduler can take
\* its next step without the timer (or sleep) having expired.
C5_WaitCancellable ==
    (chClosed /\ ~panicked /\ pc \in {"wait", "sleep"} /\ clock < timeout)
        => ENABLED Sched


\* New can complete its receive, or the scheduler can step towards it.
NewCanProgress == ENABLED (Sched \/ NewRecvFile \/ NewRecvErr)

\* C6 as stated (variant 1): New returns a non-nil writer exactly when the
\* scheduler's first epoch opened a file and handed it off, and the writer
\* then holds this open file.  The first epoch's file is handle 1.
C6_WriterHoldsFirstEpochFile ==
    (variant = 1 /\ ctor = "returned" /\ lastOp.op = "New") =>
        f = 1 /\ files[1].open

\* What New returned in variant 1: a writer holding the open file the
\* scheduler handed it, the last one the scheduler opened; or the scheduler's
\* mkdir/open error and no writer, the scheduler being on its way out.
C6_NewResult ==
    variant = 1 =>
        /\ ctor = "waiting" => NewCanProgress
        /\ ctor = "returned" => newErr = NoErr
        /\ (ctor = "returned" /\ lastOp.op = "New") =>
              /\ f # NilFile
              /\ files[f].open
              /\ files[f].adopted = <<lastOp.day, "New">>
              /\ \A h \in 1..(f - 1) : ~Adopted(h) /\ ~files[h].open
        /\ ctor = "failed" =>
              /\ newErr \in {ErrMkdir, ErrOpen}
              /\ newErr = gerr
              /\ f = NilFile
              /\ pc \in {"ret", "done"}
              /\ \A h \in Handles : ~Adopted(h) /\ ~files[h].open

\* The step in which New returns (variant 1): it received the file the
\* scheduler was offering, the last one opened, or the error it was offering.
C6_NewStep ==
    (variant = 1 /\ ctor = "waiting" /\ ctor' # "waiting") =>
        IF ctor' = "returned"
        THEN /\ pc = "offerFile"
             /\ gf = Len(files)
             /\ files[gf].open
             /\ f' = gf
        ELSE /\ pc = "offerErr"
             /\ newErr' = gerr

\* C6 as amended (variant 1): New always returns; it returns a non-nil writer
\* exactly when the scheduler handed it an opened file, which the writer then
\* holds, open -- the first epoch's file, or a later epoch's when midnight
\* passed before the handoff completed; otherwise it returns a nil writer
\* with the scheduler's mkdir/open error, and the scheduler then terminates
\* without opening any further file.
C6_NewReturns ==
    /\ []C6_NewResult
    /\ [][C6_NewStep]_vars
    /\ <>(variant = 1 => ctor # "waiting")

\* New returned a writer that holds the second epoch's file.
C6_Witness ==
    /\ variant = 1
    /\ ctor = "returned"
    /\ lastOp.op = "New"
    /\ f = 2
    /\ files[2].open


\* C7 as stated (variant 2): when the first epoch's directory creation or file
\* open fails, the failure reaches the waiting constructor and the scheduler
\* terminates: New is not blocked for ever, nor the scheduler on chErr.
C7_FirstFailureReported ==
    (variant = 2 /\ ctor = "waiting" /\ pc = "offerErr") => NewCanProgress

\* C8: Write never waits on the scheduler.  Wherever the scheduler stands, a
\* Write call the caller makes on the writer completes in its own step.
C8_WriteNeverBlocks ==
    (ctor = "returned" /\ ~panicked /\ CallerIdle)
        => \A n \in 1..MaxLen : ENABLED Write(n)

\* A Write that found nothing on offer completed while the scheduler was
\* between its shutdown check and the opening of the next file.
C8_Witness ==
    /\ lastOp.op = "Write"
    /\ lastOp.sel = "default"
    /\ lastOp.idle >= 1
    /\ pc = "open"
    /\ ~chClosed

\* C9 (variant 1): after several midnights without a call, the file the next
\* Write adopts is the file of the current day, never a file of an earlier
\* day.
C9_NextWriteAdoptsToday ==
    (/\ variant = 1
     /\ lastOp.op = "Write"
     /\ lastOp.idle >= 2
     /\ lastOp.sel = "file")
        => files[f].day = lastOp.day

\* C10 as stated (variant 2): after midnights without a Write, the Write that
\* adopts a file adopts the file of the current day, never one the scheduler
\* opened on an earlier day.
C10_AdoptsTodaysFileV2 ==
    (variant = 2 /\ lastOp.op = "Write" /\ lastOp.sel = "file")
        => files[f].day = lastOp.day


\* The caller's next call is a Write.
\* The writer holds a file that is open.
HeldOpen == f # NilFile /\ files[f].open

WriteStep == \E n \in 1..MaxLen : Write(n)

\* C11 as stated: the caller's previous call was a Write on day d that
\* forwarded its bytes, and the next Write runs on day d+1 while the scheduler
\* offers the file it opened for day d+1.  The two Writes land in two distinct
\* files of days d and d+1: the first landed in a day-d file, and the second
\* adopts the day-d+1 file, closes the day-d file and forwards to the
\* day-d+1 file only.
C11_TwoDaysStep ==
    (/\ lastOp.op = "Write"
     /\ lastOp.target # NilFile
     /\ Day(clock) = lastOp.day + 1
     /\ FileOffered
     /\ files[gf].day = Day(clock)
     /\ WriteStep)
        => /\ files[lastOp.target].day = lastOp.day
           /\ lastOp'.sel = "file"
           /\ f' = gf
           /\ f' # lastOp.target
           /\ lastOp'.target = gf
           /\ files'[gf].open
           /\ ~files'[lastOp.target].open

C11_FilesOfDaysDAndDPlus1 == [][C11_TwoDaysStep]_vars

\* C11, amended: a Write that forwards its bytes lands in the file the writer
\* holds; and whenever the writer holds an open file of day d (so every Write
\* since its adoption landed in it) and a Write runs on day d+1 while the
\* scheduler offers the file it opened for day d+1, that Write adopts the
\* day-d+1 file, closes the day-d file and forwards its bytes to the day-d+1
\* file only.
C11_Rollover ==
    /\ (lastOp.op = "Write" /\ lastOp.target # NilFile) => lastOp.target = f
    /\ (/\ HeldOpen
        /\ files[f].day = Day(clock) - 1
        /\ FileOffered
        /\ files[gf].day = Day(clock)
        /\ WriteStep)
           => /\ lastOp'.sel = "file"
              /\ f' = gf
              /\ f' # f
              /\ files'[f'].day = files[f].day + 1
              /\ lastOp'.target = gf
              /\ files'[gf].open
              /\ files'[gf].adopted = <<Day(clock), "Write">>
              /\ ~files'[f].open

C11_EpochBoundary == [][C11_Rollover]_vars

\* A Write on day d+1 adopted the day-d+1 file and wrote to it; the file held
\* before is a day-d file that an earlier Write had adopted, so the caller's
\* previous call, made on day d, was a Write that landed in it.
C11_Witness ==
    /\ lastOp.op = "Write"
    /\ lastOp.sel = "file"
    /\ lastOp.idle = 1
    /\ lastOp.target = f
    /\ lastOp.prev # NilFile
    /\ files[lastOp.prev].adopted = <<lastOp.day - 1, "Write">>
    /\ files[lastOp.prev].day = lastOp.day - 1
    /\ ~files[lastOp.prev].open
    /\ files[f].day = lastOp.day


\* The scheduler has met a mkdir/open failure and is offering it, or is past it.
SchedFailed == gerr # NoErr

\* C12: once mkdir or open has failed in an epoch after the first (New has
\* returned a writer), the scheduler does not retry: it is offering the error,
\* returning or terminated, and it opens no further file; it leaves the offer
\* only when a Write receives the error or when Close has been called; the
\* Write made while the error is on offer returns (0, that error) and neither
\* writes to nor closes the file it holds.
C12_Step ==
    (SchedFailed /\ ctor = "returned")
        => /\ pc \in {"offerErr", "ret", "done"}
           /\ pc' \in {"offerErr", "ret", "done"}
           /\ Len(files') = Len(files)
           /\ gerr' = gerr
           /\ (pc = "done" => pc' = "done" /\ chFile' = "closed")
           /\ (pc = "offerErr" /\ pc' # "offerErr")
                 => \/ chClosed
                    \/ lastOp'.op = "Write" /\ lastOp'.sel = "err"
           /\ (ErrOffered /\ WriteStep)
                 => /\ lastOp'.sel = "err"
                    /\ lastOp'.n = 0
                    /\ lastOp'.err = gerr
                    /\ lastOp'.target = NilFile
                    /\ lastErr' = gerr
                    /\ files' = files
                    /\ f' = f

C12_NoRetryAfterFailure == [][C12_Step]_vars

\* A later epoch's open failed while the writer held an open file; a Write
\* received the error, returned (0, error) leaving the held file untouched,
\* and the scheduler has terminated.
C12_Witness ==
    /\ lastOp.op = "Write"
    /\ lastOp.sel = "err"
    /\ lastOp.n = 0
    /\ lastOp.err = gerr
    /\ gerr \in {ErrMkdir, ErrOpen}
    /\ f # NilFile
    /\ files[f].open
    /\ files[f].day < Day(now)
    /\ pc = "done"
    /\ ~chClosed


\* The caller's previous call was a Write whose file write failed.
FileWriteFailed ==
    /\ lastOp.op = "Write"
    /\ lastOp.target # NilFile
    /\ lastOp.err # NoErr

\* C13: a Write that forwarded its bytes returns the file write's own result
\* and leaves the recorded error nil, as it was; when that result was an
\* error, the caller's next Write, unless it receives a scheduler error,
\* again forwards to the file it then holds and returns that write's result.
C13_Step ==
    /\ (lastOp.op = "Write" /\ lastOp.target # NilFile) => lastErr = NoErr
    /\ (FileWriteFailed /\ lastOp'.sel # "err" /\ WriteStep)
          => /\ lastErr' = NoErr
             /\ f' # NilFile
             /\ lastOp'.target = f'
             /\ \E n \in 1..MaxLen :
                   [n |-> lastOp'.n, err |-> lastOp'.err] \in FileWrite(files', f', n)

C13_FileErrorNotSticky == [][C13_Step]_vars

\* A Write has just returned an I/O error from the held file; no error is
\* recorded, the file is still held and open, and a Write that succeeds on it
\* can follow.
C13_Witness ==
    /\ FileWriteFailed
    /\ lastOp.err = ErrIO
    /\ lastOp.target = f
    /\ lastErr = NoErr
    /\ files[f].open
    /\ ENABLED (WriteStep /\ lastOp'.err = NoErr /\ lastOp'.target = f)


\* The scheduler is blocked on its midnight timer, which has not fired.
TimerPending == pc \in {"wait", "sleep"} /\ clock < timeout

\* The scheduler goroutine has returned and its deferred close(chFile) has run.
SchedTerminated == pc = "done" /\ chFile = "closed"

\* C14: once Close has been called, the scheduler goroutine eventually
\* terminates and closes the handoff channel, unless it waits for ever on a
\* midnight timer that never fires (or a second Close has panicked).
C14_CloseStopsScheduler ==
    [](chClosed => \/ <>(SchedTerminated \/ panicked)
                   \/ <>[]TimerPending)

\* Close was called while the scheduler waited for midnight after a handoff;
\* the timer has fired since and the scheduler has terminated.
C14_Witness ==
    /\ chClosed
    /\ ~panicked
    /\ SchedTerminated
    /\ lastOp.op = "Close"
    /\ gf # NilFile
    /\ Adopted(gf)
    /\ clock >= timeout
    /\ lastOp.day < Day(timeout)


\* C15: with one caller thread, between calls, while the recorded error is nil
\* the writer holds a non-nil open file, so a Write that forwards its bytes
\* finds one; a
\* Write receives nil from the closed handoff channel only when an error was
\* already recorded; and the held file is closed only by Close or by a Write
\* that replaces it with what it received.
C15_Step ==
    /\ (ctor = "returned" /\ CallerIdle /\ lastErr = NoErr) => HeldOpen
    /\ (lastOp.op = "Write" /\ lastOp.target # NilFile)
          => /\ lastOp.err \notin {ErrInvalid, ErrFileClosed}
             /\ f = lastOp.target
             /\ files[f].open
    /\ (lastOp'.sel = "closed" /\ WriteStep)
          => /\ lastErr # NoErr
             /\ lastOp'.target = NilFile
    /\ (HeldOpen /\ ~files'[f].open)
          => \/ CloseFile
             \/ WriteStep /\ lastOp'.sel \in {"file", "closed"} /\ f' # f

C15_ForwardsToOpenFile == [][C15_Step]_vars

\* After a Write had received the scheduler's error, a later Write received
\* nil from the closed handoff channel, closed the file it held and now holds
\* nil; it forwarded nothing because the error was already recorded.
C15_Witness ==
    /\ lastOp.op = "Write"
    /\ lastOp.sel = "closed"
    /\ lastOp.prev # NilFile
    /\ ~files[lastOp.prev].open
    /\ f = NilFile
    /\ lastErr \in {ErrMkdir, ErrOpen}
    /\ lastOp.err = lastErr
    /\ lastOp.target = NilFile


\* C16: once the recorded error is non-nil it stays non-nil across every
\* step (Close may replace it, nothing clears it), and every Write from then
\* on returns zero bytes and the recorded error and forwards to no file.
C16_Step ==
    lastErr # NoErr
        => /\ lastErr' # NoErr
           /\ WriteStep => /\ lastOp'.n = 0
                           /\ lastOp'.err # NoErr
                           /\ lastOp'.err = lastErr'
                           /\ lastOp'.target = NilFile

C16_ErrorNeverCleared == [][C16_Step]_vars

\* A Write had received the scheduler's error, Close then replaced it with
\* io.EOF, and a Write made after that returned (0, io.EOF).
C16_Witness ==
    /\ reported \in {ErrMkdir, ErrOpen}
    /\ chClosed
    /\ lastErr = EOF
    /\ lastOp.op = "Write"
    /\ lastOp.n = 0
    /\ lastOp.err = EOF
    /\ lastOp.target = NilFile


\* C17: a file the scheduler closes is one that was never handed over, and
\* once New has returned the held file changes only in a Write step: Tick,
\* scheduler steps and Close leave it as it is.
C17_Step ==
    /\ files' # files
          => \A h \in Handles :
                (files[h].open /\ ~files'[h].open /\ Adopted(h)) => ~Sched
    /\ (ctor = "returned" /\ f' # f) => WriteStep
    /\ (ctor = "returned" /\ (f' # f \/ files' # files) /\ HeldOpen' # HeldOpen)
          => ~(Tick \/ Sched)

C17_HeldFileFrame == [][C17_Step]_vars

\* Since the caller's last Write, midnight has passed, the scheduler has
\* opened a later file and closed it unpublished, and the writer still holds
\* the open file that Write used.
C17_Witness ==
    /\ lastOp.op = "Write"
    /\ lastOp.target = f
    /\ HeldOpen
    /\ Day(clock) > lastOp.day
    /\ \E h \in Handles : h > f /\ ~files[h].open /\ ~Adopted(h)


\* C18: when capture is enabled, the standard descriptors are redirected to a
\* file only after the writer has received that file, so no file that was
\* never handed over (closed by the scheduler or abandoned on shutdown) has
\* been redirected to.
C18_RedirectAfterAdoption ==
    \A h \in Handles : files[h].redirected => Adopted(h)


\* Thread t is inside a Write or a Close.
InCall(t) == thr[t].pc # "idle"

\* C19: Write and Close take no lock: while one thread is inside a call, at
\* whichever statement, the other thread can begin a Write and can begin a
\* Close on the same rollingFile.
C19_NoMutualExclusion ==
    \A t, u \in Threads :
        (t # u /\ InCall(t) /\ ~InCall(u) /\ ~panicked)
            => /\ ENABLED ThrWriteSelect(u)
               /\ ENABLED ThrCloseFile(u)

\* One thread's Write passed the error check and then forwarded its bytes to
\* the held handle after the other thread's call had closed it: the file
\* write failed on a closed handle.
C19_Witness ==
    \E t, u \in Threads :
        /\ t # u
        /\ thr[t].pc = "return"
        /\ thr[t].err = ErrFileClosed
        /\ InCall(u)
        /\ f # NilFile
        /\ ~files[f].open

============================================================================
